---- MODULE Spec2Model ----
(***************************************************************************)
(* Model of pj's discovery engine (internal/discover): Discoverer.Discover *)
(* with its per-root walker goroutines, the results channel, the closer    *)
(* goroutine and the collecting loop; Discoverer.walkPath with the ignore  *)
(* stack, max depth, excludes and the marker resolver.                     *)
(*                                                                         *)
(* Strings are sequences of one-character strings, so that path            *)
(* arithmetic (separator counting, Join, Base, prefix and glob matching)   *)
(* is computed as the Go code computes it.                                 *)
(***************************************************************************)
EXTENDS Integers, Sequences, FiniteSets, TLC

\* ------------------------------------------------------------------ bounds

\* largest configured max_depth
MaxDepthBound == 2
\* the clock stops at MaxTime
MaxTime == 2
\* pj processes started and direct uses of the cache, in total
MaxCalls == 3
\* entries a directly used ignore stack holds at most
MaxStack == 2
\* capacity of the results channel (100 in the source), scaled so that a
\* walk of the snapshot emits more projects than the buffer holds
ResultsCap == 2

\* ------------------------------------------------------------------ strings

Sep == "/"

\* byte values of the characters the snapshot and the configuration use
Code(c) ==
    CASE c = "*" -> 42
      [] c = "." -> 46
      [] c = "/" -> 47
      [] c = "?" -> 63
      [] c = "[" -> 91
      [] c = "]" -> 93
      [] c = "a" -> 97
      [] c = "b" -> 98
      [] c = "c" -> 99
      [] c = "d" -> 100
      [] c = "g" -> 103
      [] c = "i" -> 105
      [] c = "m" -> 109
      [] c = "n" -> 110
      [] c = "o" -> 111
      [] c = "p" -> 112
      [] c = "r" -> 114
      [] c = "s" -> 115
      [] c = "t" -> 116
      [] c = "u" -> 117
      [] c = "x" -> 120
      [] c = "~" -> 126

\* Go's string comparison a < b: bytewise lexicographic
RECURSIVE StrLess(_, _)
StrLess(a, b) ==
    IF b = <<>> THEN FALSE
    ELSE IF a = <<>> THEN TRUE
    ELSE IF Head(a) = Head(b) THEN StrLess(Tail(a), Tail(b))
    ELSE Code(Head(a)) < Code(Head(b))

\* strings.Count(s, c) for a one-byte separator
Count(s, c) == Cardinality({i \in 1..Len(s) : s[i] = c})

\* strings.HasPrefix / strings.HasSuffix
HasPrefix(s, p) == Len(p) <= Len(s) /\ SubSeq(s, 1, Len(p)) = p
HasSuffix(s, p) == Len(p) <= Len(s) /\ SubSeq(s, Len(s) - Len(p) + 1, Len(s)) = p

\* strings.ContainsAny(s, chars)
ContainsAny(s, chars) == \E i \in 1..Len(s) : s[i] \in chars

\* ------------------------------------------------------------------ paths

\* strings.Split(s, "/"): the elements of a path between separators, empty
\* elements included
RECURSIVE SplitFrom(_, _, _)
SplitFrom(s, i, cur) ==
    IF i > Len(s) THEN <<cur>>
    ELSE IF s[i] = Sep THEN <<cur>> \o SplitFrom(s, i + 1, <<>>)
    ELSE SplitFrom(s, i + 1, Append(cur, s[i]))

Split(s) == SplitFrom(s, 1, <<>>)

DotDot == <<".", ".">>

\* the elements filepath.Clean keeps: empty and "." elements dropped, ".."
\* removing the element before it (dropped at the root, kept in front of a
\* relative path)
RECURSIVE CleanElems(_, _, _)
CleanElems(elems, out, rooted) ==
    IF elems = <<>> THEN out
    ELSE LET e == Head(elems) IN
         IF e = <<>> \/ e = <<".">> THEN CleanElems(Tail(elems), out, rooted)
         ELSE IF e = DotDot
              THEN IF out # <<>> /\ out[Len(out)] # DotDot
                   THEN CleanElems(Tail(elems), SubSeq(out, 1, Len(out) - 1), rooted)
                   ELSE IF rooted THEN CleanElems(Tail(elems), out, rooted)
                   ELSE CleanElems(Tail(elems), Append(out, e), rooted)
         ELSE CleanElems(Tail(elems), Append(out, e), rooted)

RECURSIVE JoinElems(_)
JoinElems(elems) ==
    IF elems = <<>> THEN <<>>
    ELSE IF Len(elems) = 1 THEN elems[1]
    ELSE elems[1] \o <<Sep>> \o JoinElems(Tail(elems))

IsRooted(s) == s # <<>> /\ s[1] = Sep

\* the cleaned elements of a path: what names the directory it denotes
Elems(s) == CleanElems(Split(s), <<>>, IsRooted(s))

\* filepath.Clean
Clean(s) ==
    LET body == JoinElems(Elems(s)) IN
    IF IsRooted(s) THEN <<Sep>> \o body
    ELSE IF body = <<>> THEN <<".">> ELSE body

\* filepath.Join(a, b): empty elements ignored, the rest joined and cleaned
Join(a, b) ==
    IF a = <<>> /\ b = <<>> THEN <<>>
    ELSE IF a = <<>> THEN Clean(b)
    ELSE IF b = <<>> THEN Clean(a)
    ELSE Clean(a \o <<Sep>> \o b)

RECURSIVE StripTrailingSep(_)
StripTrailingSep(s) ==
    IF s # <<>> /\ s[Len(s)] = Sep THEN StripTrailingSep(SubSeq(s, 1, Len(s) - 1))
    ELSE s

\* filepath.Base
Base(s) ==
    IF s = <<>> THEN <<".">>
    ELSE LET t == StripTrailingSep(s)
             parts == Split(t)
         IN IF t = <<>> THEN <<Sep>> ELSE parts[Len(parts)]

\* filepath.Rel(base, target), slash-separated: the elements of target below
\* their common prefix with base, after one ".." per remaining element of base
RECURSIVE RelElems(_, _)
RelElems(b, t) ==
    IF b # <<>> /\ t # <<>> /\ Head(b) = Head(t) THEN RelElems(Tail(b), Tail(t))
    ELSE IF b # <<>> THEN <<DotDot>> \o RelElems(Tail(b), <<>>) \o t
    ELSE t

Rel(base, target) == RelElems(Elems(base), Elems(target))

\* ------------------------------------------------------------------ globs

\* filepath.Match's character class, entered after "[" and an optional "^":
\* ranges c or c-c up to the closing "]", which closes only after one range.
\* The result is <<well-formed, some range holds r, pattern after the class>>.
RECURSIVE ClassRanges(_, _, _, _)
ClassRanges(chunk, r, nrange, hit) ==
    IF chunk # <<>> /\ Head(chunk) = "]" /\ nrange > 0 THEN <<TRUE, hit, Tail(chunk)>>
    ELSE IF chunk = <<>> \/ Head(chunk) = "-" \/ Head(chunk) = "]" \/ Len(chunk) = 1
         THEN <<FALSE, FALSE, <<>>>>
    ELSE LET lo == Head(chunk)
             c1 == Tail(chunk)
         IN IF Head(c1) = "-"
            THEN LET c2 == Tail(c1) IN
                 IF c2 = <<>> \/ Head(c2) = "-" \/ Head(c2) = "]" \/ Len(c2) = 1
                 THEN <<FALSE, FALSE, <<>>>>
                 ELSE ClassRanges(Tail(c2), r, nrange + 1,
                                  hit \/ (Code(lo) <= Code(r) /\ Code(r) <= Code(Head(c2))))
            ELSE ClassRanges(c1, r, nrange + 1, hit \/ lo = r)

\* filepath.Match(pattern, name): "*" any run of non-separators, "?" one
\* non-separator, "[...]" a class; a malformed pattern matches nothing
RECURSIVE Match(_, _)
Match(p, n) ==
    IF p = <<>> THEN n = <<>>
    ELSE IF Head(p) = "*"
         THEN Match(Tail(p), n) \/ (n # <<>> /\ Head(n) # Sep /\ Match(p, Tail(n)))
    ELSE IF n = <<>> THEN FALSE
    ELSE IF Head(p) = "?" THEN Head(n) # Sep /\ Match(Tail(p), Tail(n))
    ELSE IF Head(p) = "["
         THEN LET negated == Len(p) > 1 /\ p[2] = "^"
                  cls == ClassRanges(IF negated THEN Tail(Tail(p)) ELSE Tail(p),
                                     Head(n), 0, FALSE)
              IN cls[1] /\ cls[2] # negated /\ Match(cls[3], Tail(n))
    ELSE Head(p) = Head(n) /\ Match(Tail(p), Tail(n))

\* a matcher that knows exact names only
matchPatternExact(name, pattern) == name = pattern

\* matchPattern: exact name, "*suffix", "prefix*", then a general glob
matchPattern(name, pattern) ==
    IF name = pattern THEN TRUE
    ELSE IF HasPrefix(pattern, <<"*">>) THEN HasSuffix(name, Tail(pattern))
    ELSE IF HasSuffix(pattern, <<"*">>)
         THEN HasPrefix(name, SubSeq(pattern, 1, Len(pattern) - 1))
    ELSE Match(pattern, name)

\* ------------------------------------------------------------------ snapshot

\* names used by the snapshot and the configurations
DotGit == <<".", "g", "i", "t">>
GoMod == <<"g", "o", ".", "m", "o", "d">>
StarC == <<"*", ".", "c">>
GitIgnoreName == <<".", "g", "i", "t", "i", "g", "n", "o", "r", "e">>
IgnoreName == <<".", "i", "g", "n", "o", "r", "e">>

\* The filesystem snapshot, a finite tree: each entry is <<elements of the
\* containing directory, name, is a directory>>.
\*   /r/             .gitignore (patterns: s)
\*   /r/a/           .git  go.mod  .ignore (patterns: u, x)
\*   /r/a/s/         m.c  n.c
\*   /r/b/           t.c/ (a directory that a file pattern matches)
\*   /r/b/t.c/       .git
\*   /r/b/t.c/u/     go.mod
\*   /r/x/           .git  m.c
DirR == <<<<"r">>>>
DirA == <<<<"r">>, <<"a">>>>
DirAS == <<<<"r">>, <<"a">>, <<"s">>>>
DirB == <<<<"r">>, <<"b">>>>
DirBT == <<<<"r">>, <<"b">>, <<"t", ".", "c">>>>
DirBTU == <<<<"r">>, <<"b">>, <<"t", ".", "c">>, <<"u">>>>
DirX == <<<<"r">>, <<"x">>>>

Tree ==
    { << <<>>, <<"r">>, TRUE >>,
      << DirR, GitIgnoreName, FALSE >>,
      << DirR, <<"a">>, TRUE >>,
      << DirR, <<"b">>, TRUE >>,
      << DirR, <<"x">>, TRUE >>,
      << DirA, DotGit, FALSE >>,
      << DirA, GoMod, FALSE >>,
      << DirA, IgnoreName, FALSE >>,
      << DirA, <<"s">>, TRUE >>,
      << DirAS, <<"m", ".", "c">>, FALSE >>,
      << DirAS, <<"n", ".", "c">>, FALSE >>,
      << DirB, <<"t", ".", "c">>, TRUE >>,
      << DirBT, DotGit, FALSE >>,
      << DirBT, <<"u">>, TRUE >>,
      << DirBTU, GoMod, FALSE >>,
      << DirX, DotGit, FALSE >>,
      << DirX, <<"m", ".", "c">>, FALSE >> }

\* the patterns of the snapshot's ignore files: plain names
IgnoreFilePatterns(dirElems, fileName) ==
    IF dirElems = DirR /\ fileName = GitIgnoreName THEN {<<"s">>}
    ELSE IF dirElems = DirA /\ fileName = IgnoreName THEN {<<"u">>, <<"x">>}
    ELSE {}

\* the element sequences of the snapshot's entries, and of its directories
EntryElems == {Append(e[1], e[2]) : e \in Tree}
DirElems == {Append(e[1], e[2]) : e \in {t \in Tree : t[3]}} \cup {<<>>}

\* os.Stat(path) succeeds: the path names an entry of the snapshot (or "/")
Exists(path) ==
    IsRooted(path) /\ LET el == Elems(path) IN el = <<>> \/ el \in EntryElems

IsDirectory(path) == IsRooted(path) /\ Elems(path) \in DirElems

\* a set of names as the sequence sorted by name
RECURSIVE SortNames(_)
SortNames(S) ==
    IF S = {} THEN <<>>
    ELSE LET m == CHOOSE x \in S : \A y \in S \ {x} : StrLess(x, y)
         IN <<m>> \o SortNames(S \ {m})

\* the entries of a directory for its sorted names, each <<name, is a directory>>
RECURSIVE EntriesOf(_, _)
EntriesOf(el, names) ==
    IF names = <<>> THEN <<>>
    ELSE <<<<Head(names), Append(el, Head(names)) \in DirElems>>>> \o EntriesOf(el, Tail(names))

\* the listing of every directory of the snapshot
Listing ==
    [el \in DirElems |-> EntriesOf(el, SortNames({e[2] : e \in {t \in Tree : t[1] = el}}))]

\* os.ReadDir(dir)
ReadDir(dir) == Listing[Elems(dir)]

\* the names of the subdirectories of dir, in the order WalkDir visits them
SubDirs(dir) ==
    SelectSeq(ReadDir(dir), LAMBDA e : e[2])

\* ------------------------------------------------------------------ state

VARIABLES
    config,     \* the configuration Discover reads (config.Config)
    mainpc,     \* Discover's position: "launch", "collect", "returned"
    next,       \* index of the search root the launch loop handles next
    walkers,    \* per search root: the walker goroutine's state
    wg,         \* sync.WaitGroup counter
    closerpc,   \* the closing goroutine: "none", "waiting", "closed"
    results,    \* the buffered results channel
    closes,     \* number of close(results) calls made
    seen,       \* the collecting loop's set of paths
    projects,   \* the collecting loop's list, and Discover's return value
    err,        \* Discover's returned error
    emitted     \* history: <<project, walker index>> for every send made

\* the state of the cache and of the pj processes that use it
VARIABLES
    clock,      \* the time, in seconds
    cacheDir,   \* the cache directory: whether it exists, and its files by hash
    pj,         \* the running pj process (main): position, configuration, flags
    stored,     \* history: per hash, the configuration, list and time of the
                \* completed Set that last wrote the file
    last,       \* history: the last call of a cache Manager method and its result
    cleared,    \* history: whether Clear has been called, the files the last
                \* Clear removed and the files written since
    calls       \* history: number of process starts and direct calls made

\* the state of callers that use the packages' functions directly, and of a
\* second process that writes the cache while another reads it
VARIABLES
    setter,     \* a Manager.Set in progress: position, configuration, list
    call,       \* history: the last direct call of a function and its result
    istack      \* the IgnoreStack a direct caller holds

discovervars == <<config, mainpc, next, walkers, wg, closerpc, results, closes, seen,
                  projects, err, emitted>>

cachevars == <<clock, cacheDir, pj, stored, last, cleared, calls>>

directvars == <<setter, call, istack>>

vars == <<discovervars, cachevars, directvars>>

\* ------------------------------------------------------------------ marker resolver

\* the built-in table markerSpecificity, on the markers of the snapshot (a
\* name outside the table reads 0)
markerSpecificity(marker) ==
    IF marker = DotGit THEN 1
    ELSE IF marker = GoMod THEN 10
    ELSE 0

\* d.config.Priorities[marker]: a missing key reads 0
PriorityEntry(cfg, marker) ==
    IF marker \in DOMAIN cfg.Priorities THEN cfg.Priorities[marker] ELSE 0

getMarkerPriority(cfg, marker) ==
    LET p1 == PriorityEntry(cfg, marker)
        p2 == IF p1 = 0 THEN markerSpecificity(marker) ELSE p1
    IN IF p2 = 0 THEN 1 ELSE p2

NoMarker == <<>>

\* a pattern phase that takes the first matching entry, directory or not
RECURSIVE FirstEntryMatch(_, _)
FirstEntryMatch(pattern, entries) ==
    IF entries = <<>> THEN NoMarker
    ELSE IF Match(pattern, Head(entries)[1]) THEN Head(entries)[1]
    ELSE FirstEntryMatch(pattern, Tail(entries))

\* the first marker found is kept
BetterFirstFound(priority, bestPriority) == bestPriority = 0 /\ priority > 0

\* the last of the markers that tie is kept
BetterOrEqual(priority, bestPriority) == priority >= bestPriority

\* a candidate replaces the best marker so far
Better(priority, bestPriority) == priority > bestPriority

\* phase 1 of walkPath: the exact markers in configured order; best is
\* <<bestMarker, bestPriority>>
RECURSIVE ExactPhase(_, _, _, _)
ExactPhase(cfg, path, markers, best) ==
    IF markers = <<>> THEN best
    ELSE LET marker == Head(markers)
             priority == getMarkerPriority(cfg, marker)
         IN IF Exists(Join(path, marker)) /\ Better(priority, best[2])
            THEN ExactPhase(cfg, path, Tail(markers), <<marker, priority>>)
            ELSE ExactPhase(cfg, path, Tail(markers), best)

\* the first entry in listing order that is no directory and that the
\* pattern matches, or NoMarker
RECURSIVE FirstFileMatch(_, _)
FirstFileMatch(pattern, entries) ==
    IF entries = <<>> THEN NoMarker
    ELSE IF ~Head(entries)[2] /\ Match(pattern, Head(entries)[1]) THEN Head(entries)[1]
    ELSE FirstFileMatch(pattern, Tail(entries))

RECURSIVE PatternPhase(_, _, _, _)
PatternPhase(cfg, entries, patterns, best) ==
    IF patterns = <<>> THEN best
    ELSE LET pattern == Head(patterns)
             name == FirstFileMatch(pattern, entries)
             priority == getMarkerPriority(cfg, pattern)
         IN IF name # NoMarker /\ Better(priority, best[2])
            THEN PatternPhase(cfg, entries, Tail(patterns), <<name, priority>>)
            ELSE PatternPhase(cfg, entries, Tail(patterns), best)

checkPatternMarkers(cfg, dir) ==
    PatternPhase(cfg, ReadDir(dir), cfg.PatternMarkers, <<NoMarker, 0>>)

\* the marker resolution of walkPath: <<bestMarker, bestPriority>>
ResolveMarker(cfg, path) ==
    LET exact == ExactPhase(cfg, path, cfg.ExactMarkers, <<NoMarker, 0>>)
    IN IF Len(cfg.PatternMarkers) > 0
       THEN LET pat == checkPatternMarkers(cfg, path)
            IN IF pat[2] > exact[2] THEN pat ELSE exact
       ELSE exact

\* ------------------------------------------------------------------ ignore stack

ignoreFileNames == <<GitIgnoreName, IgnoreName>>

\* IgnoreStack.Enter: one entry per ignore file found in dir
RECURSIVE EnterFiles(_, _, _, _)
EnterFiles(stack, dir, depth, fileNames) ==
    IF fileNames = <<>> THEN stack
    ELSE IF Exists(Join(dir, Head(fileNames)))
         THEN EnterFiles(Append(stack, [depth |-> depth, dir |-> dir,
                                        matcher |-> IgnoreFilePatterns(Elems(dir), Head(fileNames))]),
                         dir, depth, Tail(fileNames))
         ELSE EnterFiles(stack, dir, depth, Tail(fileNames))

Enter(enabled, stack, dir, depth) ==
    IF ~enabled THEN stack ELSE EnterFiles(stack, dir, depth, ignoreFileNames)

\* a Leave that pops nothing
StaleNever(entryDepth, depth) == FALSE

\* an entry of the stack is popped by Leave(depth)
Stale(entryDepth, depth) == entryDepth >= depth

\* IgnoreStack.Leave: pop while the top entry's depth >= depth
RECURSIVE Leave(_, _, _)
Leave(enabled, stack, depth) ==
    IF ~enabled THEN stack
    ELSE IF Len(stack) > 0 /\ Stale(stack[Len(stack)].depth, depth)
         THEN Leave(enabled, SubSeq(stack, 1, Len(stack) - 1), depth)
         ELSE stack

\* GitIgnore.MatchesPath for plain-name patterns: a pattern "name" compiles
\* to ^(|.*/)name(|/.*)$, which holds when an element of the path is the name
MatchesPath(matcher, relElems) ==
    \E i \in 1..Len(relElems) : relElems[i] \in matcher

\* IgnoreStack.ShouldIgnore(path, true): any entry, innermost first, whose
\* matcher matches the path relative to the entry's directory
ShouldIgnore(enabled, stack, path) ==
    /\ enabled
    /\ Len(stack) > 0
    /\ \E i \in 1..Len(stack) : MatchesPath(stack[i].matcher, Rel(stack[i].dir, path))

\* ------------------------------------------------------------------ walkPath

\* the exclude patterns matched against the whole path
ExcludedFullPath(cfg, path) ==
    \E i \in 1..Len(cfg.Excludes) : matchPattern(path, cfg.Excludes[i])

\* some exclude pattern matches the directory's base name
Excluded(cfg, path) ==
    \E i \in 1..Len(cfg.Excludes) : matchPattern(Base(path), cfg.Excludes[i])

\* currentDepth of walkPath: separators of the path less those of the root
CurrentDepth(root, path) == Count(path, Sep) - Count(root, Sep)

\* the directory is beyond the configured depth
TooDeep(cfg, currentDepth) == currentDepth > cfg.MaxDepth

\* a walker that descends into every project
PruneNever(cfg) == FALSE

\* a directory that was emitted as a project is not descended into
PruneProject(cfg) == ~cfg.Nested

\* the ignore stack at the moment the callback evaluates ShouldIgnore: the
\* stack the previous callback left, after Leave when the walk did not descend
StackAtCheck(cfg, root, path, stack, previousDepth) ==
    IF previousDepth >= 0 /\ CurrentDepth(root, path) <= previousDepth
    THEN Leave(~cfg.NoIgnore, stack, CurrentDepth(root, path))
    ELSE stack

\* the callback returns fs.SkipDir because of the ignore rules
SkippedByIgnore(cfg, root, path, stack, previousDepth) ==
    ShouldIgnore(~cfg.NoIgnore, StackAtCheck(cfg, root, path, stack, previousDepth), path)

\* One call of walkPath's WalkDir callback on a directory: the ignore stack
\* and previousDepth it leaves, the project it sends (a sequence of zero or
\* one), and whether WalkDir descends (no fs.SkipDir).
VisitDir(cfg, root, path, stack, previousDepth) ==
    LET depth == CurrentDepth(root, path)
        enabled == ~cfg.NoIgnore
        left == StackAtCheck(cfg, root, path, stack, previousDepth)
        entered == Enter(enabled, left, path, depth)
        best == ResolveMarker(cfg, path)
    IN IF SkippedByIgnore(cfg, root, path, stack, previousDepth)
       THEN [stack |-> left, previousDepth |-> depth, send |-> <<>>, descend |-> FALSE]
       ELSE IF TooDeep(cfg, depth) \/ Excluded(cfg, path)
       THEN [stack |-> entered, previousDepth |-> depth, send |-> <<>>, descend |-> FALSE]
       ELSE IF best[1] # NoMarker
       THEN [stack |-> entered, previousDepth |-> depth,
             send |-> <<[Path |-> path, Marker |-> best[1], Priority |-> best[2]]>>,
             descend |-> ~PruneProject(cfg)]
       ELSE [stack |-> entered, previousDepth |-> depth, send |-> <<>>, descend |-> TRUE]

\* the paths WalkDir passes for the subdirectories of path, in listing order
RECURSIVE JoinEach(_, _)
JoinEach(path, entries) ==
    IF entries = <<>> THEN <<>>
    ELSE <<Join(path, Head(entries)[1])>> \o JoinEach(path, Tail(entries))

ChildPaths(path) == JoinEach(path, SubDirs(path))

\* one step of filepath.WalkDir on a directory: the callback, then the
\* subdirectories to walk next unless the callback returned fs.SkipDir
WalkStep(cfg, root, path, stack, previousDepth) ==
    LET v == VisitDir(cfg, root, path, stack, previousDepth)
    IN [stack |-> v.stack, previousDepth |-> v.previousDepth, send |-> v.send,
        children |-> IF v.descend THEN ChildPaths(path) ELSE <<>>]

\* ------------------------------------------------------------------ Discover

HomeDir == <<"/", "r">>

\* the search root as Discover passes it to walkPath: a leading "~" replaced
\* by the home directory
ExpandRoot(root) ==
    IF Len(root) > 0 /\ root[1] = "~" THEN Join(HomeDir, Tail(root)) ELSE root

\* a comparison by priority alone
lessPriorityOnly(a, b) == a.Priority > b.Priority

\* a comparison that puts the lower priority first
lessAscending(a, b) ==
    IF a.Priority # b.Priority THEN a.Priority < b.Priority
    ELSE StrLess(a.Path, b.Path)

\* the comparison of Discover's sort: priority descending, then path
less(a, b) ==
    IF a.Priority # b.Priority THEN a.Priority > b.Priority
    ELSE StrLess(a.Path, b.Path)

\* sort.Slice(projects, less): the elements in the order of less, elements
\* that less does not order left in their order
SortProjects(ps) ==
    LET before(j, k) == less(ps[j], ps[k]) \/ (~less(ps[k], ps[j]) /\ j < k)
        rank(k) == 1 + Cardinality({j \in 1..Len(ps) : j # k /\ before(j, k)})
    IN [i \in 1..Len(ps) |-> ps[CHOOSE k \in 1..Len(ps) : rank(k) = i]]

\* a collecting loop that keeps every received project
FreshAlways(p, seenPaths) == TRUE

\* the collecting loop keeps a received project
Fresh(p, seenPaths) == p.Path \notin seenPaths

\* a closer that does not wait for the walkers
WaitDoneAtOnce(counter) == TRUE

\* wg.Wait() returns
WaitDone(counter) == counter = 0

\* a walker that returns without wg.Done()
DoneMissing(counter) == counter

\* wg.Done()
Done(counter) == counter - 1

\* a send on the results channel can proceed
CanSend(ch) == Len(ch) < ResultsCap

\* ------------------------------------------------------------------ configurations

\* search roots as configured: /r, /r/ (as "ls -d" prints it), ~/a/s (under
\* the home directory, inside the project /r/a) and /nx (which does not exist)
RootR == <<"/", "r">>
RootRSlash == <<"/", "r", "/">>
RootTildeAS == <<"~", "/", "a", "/", "s">>
RootNX == <<"/", "n", "x">>

\* the lists of search roots: none, single, repeated, overlapping, missing
SearchPathChoices ==
    { <<>>, <<RootNX>>, <<RootR>>, <<RootRSlash>>, <<RootTildeAS>>,
      <<RootNX, RootNX>>, <<RootNX, RootR>>, <<RootR, RootNX>>,
      <<RootR, RootR>>, <<RootR, RootRSlash>>,
      <<RootR, RootTildeAS>>, <<RootTildeAS, RootR>>, <<RootRSlash, RootTildeAS>> }

MarkerChoices ==
    { [exact |-> <<DotGit, GoMod>>, pattern |-> <<>>],
      [exact |-> <<GoMod, DotGit>>, pattern |-> <<StarC>>] }

PriorityChoices ==
    { <<>>,
      (DotGit :> 10) @@ (StarC :> 10),
      (DotGit :> -5) @@ (GoMod :> 0) }

ExcludeChoices ==
    { <<>>, <<<<"x">>>>, <<<<"s">>, <<"t", "*">>>> }

Configs ==
    [ SearchPaths : SearchPathChoices,
      Markers : MarkerChoices,
      Priorities : PriorityChoices,
      MaxDepth : 0..MaxDepthBound,
      Excludes : ExcludeChoices,
      NoIgnore : BOOLEAN,
      Nested : BOOLEAN ]

\* discover.New: the configuration with its markers categorized
MakeConfig(c) ==
    [ SearchPaths |-> c.SearchPaths,
      ExactMarkers |-> c.Markers.exact,
      PatternMarkers |-> c.Markers.pattern,
      Priorities |-> c.Priorities,
      MaxDepth |-> c.MaxDepth,
      Excludes |-> c.Excludes,
      NoIgnore |-> c.NoIgnore,
      Nested |-> c.Nested ]

\* the walker indices any configuration uses
WalkerIds == UNION {1..Len(sp) : sp \in SearchPathChoices}

\* walkPath reads everything of the configuration but the search roots
WalkConfig(cfg) == [cfg EXCEPT !.SearchPaths = <<>>]

\* the directories a root's walker is started on
WalkedRoots ==
    {r \in UNION {{ExpandRoot(sp[i]) : i \in 1..Len(sp)} : sp \in SearchPathChoices} :
       IsDirectory(r)}

\* the <<path, ignore stack, previousDepth>> of every callback of a walk
RECURSIVE WalkArgs(_, _, _, _, _)
WalkArgs(cfg, root, todo, stack, previousDepth) ==
    IF todo = <<>> THEN {}
    ELSE UNION { {<<Head(todo), stack, previousDepth>>}
                   \cup UNION { WalkArgs(cfg, root, t, v.stack, v.previousDepth) :
                                  t \in {v.children \o Tail(todo)} } :
                 v \in {WalkStep(cfg, root, Head(todo), stack, previousDepth)} }

\* WalkStep tabulated over the callbacks the walks make, so that each is
\* computed once
WalkTable ==
    [cfg \in {WalkConfig(MakeConfig(c)) : c \in Configs} |->
       [root \in WalkedRoots |->
          [a \in WalkArgs(cfg, root, <<root>>, <<>>, -1) |->
             WalkStep(cfg, root, a[1], a[2], a[3])]]]

Roots == 1..Len(config.SearchPaths)

IdleWalker ==
    [status |-> "idle", root |-> <<>>, todo |-> <<>>, previousDepth |-> -1, stack |-> <<>>]

\* no file: a function with no argument
NoFiles == [k \in {} |-> <<>>]

NoCall == [op |-> "none"]

\* no Set in progress, no function called directly
NoDirectUse ==
    /\ setter = [pc |-> "idle"]
    /\ call = NoCall
    /\ istack = <<>>

\* the cache untouched and no pj process running
CacheAtRest ==
    /\ clock = 0
    /\ cacheDir = [exists |-> FALSE, files |-> NoFiles]
    /\ pj = [pc |-> "idle"]
    /\ stored = NoFiles
    /\ last = NoCall
    /\ cleared = [done |-> FALSE, by |-> <<>>, removed |-> {}, written |-> {}]
    /\ calls = 0

Init ==
    /\ CacheAtRest
    /\ NoDirectUse
    /\ config \in {MakeConfig(c) : c \in Configs}
    /\ mainpc = "launch"
    /\ next = 1
    /\ walkers = [w \in Roots |-> IdleWalker]
    /\ wg = 0
    /\ closerpc = "none"
    /\ results = <<>>
    /\ closes = 0
    /\ seen = {}
    /\ projects = <<>>
    /\ err = "nil"
    /\ emitted = {}

\* one iteration of Discover's fan-out loop: a root that does not exist is
\* skipped, any other gets a walker goroutine after wg.Add(1)
Launch ==
    /\ mainpc = "launch"
    /\ next <= Len(config.SearchPaths)
    /\ \E root \in {ExpandRoot(config.SearchPaths[next])} :
       IF ~Exists(root)
       THEN /\ walkers' = [walkers EXCEPT ![next].status = "skipped"]
            /\ wg' = wg
       ELSE /\ walkers' = [walkers EXCEPT ![next] =
                             [status |-> "walking", root |-> root,
                              todo |-> IF IsDirectory(root) THEN <<root>> ELSE <<>>,
                              previousDepth |-> -1, stack |-> <<>>]]
            /\ wg' = wg + 1
    /\ next' = next + 1
    /\ UNCHANGED <<config, mainpc, closerpc, results, closes, seen, projects, err, emitted>>
    /\ UNCHANGED <<cachevars, directvars>>

\* after the loop: start the goroutine that waits and closes, and enter the
\* collecting loop
StartCloser ==
    /\ mainpc = "launch"
    /\ next > Len(config.SearchPaths)
    /\ closerpc' = "waiting"
    /\ mainpc' = "collect"
    /\ UNCHANGED <<config, next, walkers, wg, results, closes, seen, projects, err, emitted>>
    /\ UNCHANGED <<cachevars, directvars>>

\* a walker's WalkDir callback on the next directory in lexical depth-first
\* order; a callback that emits a project blocks while the channel is full
Visit(w) ==
    /\ walkers[w].status = "walking"
    /\ walkers[w].todo # <<>>
    /\ LET me == walkers[w]
           path == Head(me.todo)
       IN \E v \in {WalkTable[WalkConfig(config)][me.root][<<path, me.stack, me.previousDepth>>]} :
          /\ v.send # <<>> => CanSend(results)
          /\ results' = results \o v.send
          /\ emitted' = emitted \cup {<<v.send[i], w>> : i \in 1..Len(v.send)}
          /\ walkers' = [walkers EXCEPT ![w] =
                           [me EXCEPT !.todo = v.children \o Tail(me.todo),
                                      !.stack = v.stack,
                                      !.previousDepth = v.previousDepth]]
    /\ UNCHANGED <<config, mainpc, next, wg, closerpc, closes, seen, projects, err>>
    /\ UNCHANGED <<cachevars, directvars>>

\* WalkDir is over: walkPath returns and the deferred wg.Done() runs
WalkerReturn(w) ==
    /\ walkers[w].status = "walking"
    /\ walkers[w].todo = <<>>
    /\ walkers' = [walkers EXCEPT ![w].status = "returned"]
    /\ wg' = Done(wg)
    /\ UNCHANGED <<config, mainpc, next, closerpc, results, closes, seen, projects, err, emitted>>
    /\ UNCHANGED <<cachevars, directvars>>

\* the closing goroutine: wg.Wait() returns, then close(results)
CloseResults ==
    /\ closerpc = "waiting"
    /\ WaitDone(wg)
    /\ closerpc' = "closed"
    /\ closes' = closes + 1
    /\ UNCHANGED <<config, mainpc, next, walkers, wg, results, seen, projects, err, emitted>>
    /\ UNCHANGED <<cachevars, directvars>>

\* one iteration of "for p := range results": keep p unless its path was seen
Receive ==
    /\ mainpc = "collect"
    /\ results # <<>>
    /\ LET p == Head(results) IN
       /\ results' = Tail(results)
       /\ IF Fresh(p, seen)
          THEN seen' = seen \cup {p.Path} /\ projects' = Append(projects, p)
          ELSE UNCHANGED <<seen, projects>>
    /\ UNCHANGED <<config, mainpc, next, walkers, wg, closerpc, closes, err, emitted>>
    /\ UNCHANGED <<cachevars, directvars>>

\* the range loop ends on the closed, drained channel; Discover sorts and
\* returns projects, nil
Return ==
    /\ mainpc = "collect"
    /\ results = <<>>
    /\ closes > 0
    /\ projects' = SortProjects(projects)
    /\ mainpc' = "returned"
    /\ UNCHANGED <<config, next, walkers, wg, closerpc, results, closes, seen, err, emitted>>
    /\ UNCHANGED <<cachevars, directvars>>

Next ==
    \/ Launch
    \/ StartCloser
    \/ \E w \in Roots : Visit(w)
    \/ \E w \in Roots : WalkerReturn(w)
    \/ CloseResults
    \/ Receive
    \/ Return

Spec == Init /\ [][Next]_vars

\* scheduling: every goroutine that can take a step eventually takes one
Fairness ==
    /\ WF_vars(Launch \/ StartCloser \/ Receive \/ Return)
    /\ WF_vars(CloseResults)
    /\ \A w \in WalkerIds : WF_vars(w \in Roots /\ (Visit(w) \/ WalkerReturn(w)))

FairSpec == Spec /\ Fairness

\* ------------------------------------------------------------------ reference

\* the projects one walker sends, in order, when it runs alone from todo
RECURSIVE WalkAlone(_, _, _, _, _)
WalkAlone(cfg, root, todo, stack, previousDepth) ==
    IF todo = <<>> THEN <<>>
    ELSE CHOOSE sent \in
           UNION { { v.send \o WalkAlone(cfg, root, t, v.stack, v.previousDepth) :
                       t \in {v.children \o Tail(todo)} } :
                   v \in {WalkStep(cfg, root, Head(todo), stack, previousDepth)} } : TRUE

\* the projects of all walkers run one after the other in configured order
RECURSIVE SequentialSends(_, _)
SequentialSends(cfg, roots) ==
    IF roots = <<>> THEN <<>>
    ELSE LET root == ExpandRoot(Head(roots))
         IN (IF IsDirectory(root) THEN WalkAlone(cfg, root, <<root>>, <<>>, -1) ELSE <<>>)
            \o SequentialSends(cfg, Tail(roots))

\* the first occurrence of every path
RECURSIVE FirstOfEachPath(_, _)
FirstOfEachPath(ps, paths) ==
    IF ps = <<>> THEN <<>>
    ELSE IF Head(ps).Path \in paths THEN FirstOfEachPath(Tail(ps), paths)
    ELSE <<Head(ps)>> \o FirstOfEachPath(Tail(ps), paths \cup {Head(ps).Path})

\* the list a run with no concurrency returns
SequentialResult(cfg) == SortProjects(FirstOfEachPath(SequentialSends(cfg, cfg.SearchPaths), {}))

Returned == mainpc = "returned"

Launched(w) == walkers[w].status \in {"walking", "returned"}

\* some path was sent by two walkers
OverlapHappened ==
    \E e1 \in emitted, e2 \in emitted : e1[1].Path = e2[1].Path /\ e1[2] # e2[2]

\* ------------------------------------------------------------------ claims

\* C1: for a fixed snapshot and configuration the list Discover returns is
\* the same under every scheduling of the walkers: it is the list the
\* sequential run returns, also when roots repeat or overlap.
C1_Deterministic == Returned => projects = SequentialResult(config)

C1_Witness == Returned /\ OverlapHappened /\ Len(projects) >= 2

\* C2: the results channel is closed once, only after every launched walker
\* has returned (so no send follows the close), and when Discover returns the
\* channel is drained and every project sent is in the collected list.
C2_CloseAfterWalkers ==
    /\ closes <= 1
    /\ closes > 0 => /\ mainpc # "launch"
                     /\ \A w \in Roots : walkers[w].status \in {"skipped", "returned"}
    /\ Returned => /\ closes = 1
                   /\ results = <<>>
                   /\ \A e \in emitted :
                        e[1].Path \in seen /\ \E i \in 1..Len(projects) : projects[i] = e[1]

C2_Witness ==
    /\ Returned
    /\ closes = 1
    /\ \A w \in Roots : walkers[w].status = "returned"
    /\ Len(config.SearchPaths) = 2
    /\ Cardinality(emitted) > ResultsCap

AllRootsMissing ==
    \A i \in 1..Len(config.SearchPaths) : ~Exists(ExpandRoot(config.SearchPaths[i]))

\* C3: under fair scheduling every call of Discover returns, with a nil
\* error, whatever the roots and however many projects are sent; the list is
\* empty when no root exists.
C3_Returns ==
    <>(Returned /\ err = "nil" /\ (AllRootsMissing => projects = <<>>))

C3_Witness ==
    /\ Returned
    /\ err = "nil"
    /\ Cardinality({e \in emitted : e[2] = 1}) > ResultsCap

C3_WitnessMissing ==
    Returned /\ AllRootsMissing /\ Len(config.SearchPaths) = 2 /\ projects = <<>>

\* C4: every path occurs at most once in the returned list, and every
\* project sent by some walker occurs exactly once, for repeated and
\* overlapping roots.
C4_EachOnce ==
    Returned =>
      /\ \A i, j \in 1..Len(projects) : projects[i].Path = projects[j].Path => i = j
      /\ \A e \in emitted : Cardinality({i \in 1..Len(projects) : projects[i] = e[1]}) = 1

C4_Witness == Returned /\ OverlapHappened /\ config.SearchPaths = <<RootR, RootR>>

\* C5: the returned list is sorted by priority descending and, among equal
\* priorities, by path ascending.
C5_Sorted ==
    Returned =>
      \A i \in 1..(Len(projects) - 1) :
        \/ projects[i].Priority > projects[i + 1].Priority
        \/ /\ projects[i].Priority = projects[i + 1].Priority
           /\ StrLess(projects[i].Path, projects[i + 1].Path)

C5_Witness ==
    /\ Returned
    /\ \E i, j \in 1..Len(projects) :
         /\ i + 1 < j
         /\ projects[i].Priority > projects[i + 1].Priority
         /\ projects[i + 1].Priority = projects[j].Priority

\* ------------------------------------------------------------------ claims on the walk

Range(q) == {q[i] : i \in 1..Len(q)}

PathOfElems(el) == <<Sep>> \o JoinElems(el)

\* p lies strictly beneath q
ProperDescendant(p, q) ==
    LET ep == Elems(p)
        eq == Elems(q)
    IN Len(eq) < Len(ep) /\ SubSeq(ep, 1, Len(eq)) = eq

\* the configured markers present in a directory: exact names that exist,
\* patterns that match an entry that is no directory
PresentExact(cfg, path) == {m \in Range(cfg.ExactMarkers) : Exists(Join(path, m))}

FileMatches(path, pattern) ==
    {e[1] : e \in {x \in Range(ReadDir(path)) : ~x[2] /\ Match(pattern, x[1])}}

PresentPattern(cfg, path) == {pt \in Range(cfg.PatternMarkers) : FileMatches(path, pt) # {}}

PresentPriorities(cfg, path) ==
    {getMarkerPriority(cfg, m) : m \in PresentExact(cfg, path) \cup PresentPattern(cfg, path)}

MaxOf(S) == CHOOSE x \in S : \A y \in S : y <= x

\* C6: the marker reported for an emitted project has the highest resolved
\* priority of the configured markers present in the directory, and the
\* reported priority is that maximum.
C6_BestMarker ==
    \A e \in emitted :
      LET p == e[1]
          prios == PresentPriorities(config, p.Path)
      IN /\ prios # {}
         /\ p.Priority = MaxOf(prios)
         /\ \/ \E m \in PresentExact(config, p.Path) :
                 m = p.Marker /\ getMarkerPriority(config, m) = p.Priority
            \/ \E pt \in PresentPattern(config, p.Path) :
                 p.Marker \in FileMatches(p.Path, pt) /\ getMarkerPriority(config, pt) = p.Priority

C6_Witness ==
    \E e \in emitted :
      /\ PresentExact(config, e[1].Path) # {}
      /\ PresentPattern(config, e[1].Path) # {}
      /\ Cardinality(PresentPriorities(config, e[1].Path)) >= 2
      /\ config.ExactMarkers[1] = e[1].Marker => Len(config.ExactMarkers) > 1

\* C7 as stated: with Nested false, no project of the returned list lies
\* strictly beneath another project of the list, for any list of roots.
C7_NoNestedInList ==
    (Returned /\ ~config.Nested) =>
      \A i, j \in 1..Len(projects) : ~ProperDescendant(projects[i].Path, projects[j].Path)

\* C7 amended: with Nested false, no walker emits a project strictly beneath
\* a project it has emitted; a project lies beneath another one only when it
\* was emitted by a walker whose search root lies strictly beneath that one.
C7_NoNestedPerWalker ==
    ~config.Nested =>
      \A e1 \in emitted, e2 \in emitted :
        ProperDescendant(e2[1].Path, e1[1].Path) =>
          e1[2] # e2[2] /\ ProperDescendant(walkers[e2[2]].root, e1[1].Path)

C7_Witness ==
    /\ Returned
    /\ ~config.Nested
    /\ config.NoIgnore
    /\ config.Excludes = <<>>
    /\ config.MaxDepth = MaxDepthBound
    /\ config.SearchPaths = <<RootR>>
    /\ ResolveMarker(config, PathOfElems(DirAS))[1] # NoMarker
    /\ \E e \in emitted : Elems(e[1].Path) = DirA
    /\ \A e \in emitted : Elems(e[1].Path) # DirAS

\* a directory's name matches an exclude pattern
ExcludedName(cfg, name) == \E i \in 1..Len(cfg.Excludes) : matchPattern(name, cfg.Excludes[i])

\* an ignore file of a proper ancestor of el inside the walk of rootElems has a
\* pattern that matches el relative to that ancestor
IgnoredByAncestor(cfg, rootElems, el) ==
    /\ ~cfg.NoIgnore
    /\ \E n \in Len(rootElems)..(Len(el) - 1) :
         \E f \in Range(ignoreFileNames) :
           /\ Append(SubSeq(el, 1, n), f) \in EntryElems
           /\ MatchesPath(IgnoreFilePatterns(SubSeq(el, 1, n), f), SubSeq(el, n + 1, Len(el)))

\* no directory from the root down to el is excluded or ignored
Unpruned(cfg, rootElems, el) ==
    \A k \in Len(rootElems)..Len(el) :
      /\ k >= 1 => ~ExcludedName(cfg, el[k])
      /\ ~IgnoredByAncestor(cfg, rootElems, SubSeq(el, 1, k))

\* the directories at or beneath the root
Beneath(rootElems) ==
    {d \in DirElems : Len(d) >= Len(rootElems) /\ SubSeq(d, 1, Len(rootElems)) = rootElems}

HasMarker(cfg, el) ==
    PresentExact(cfg, PathOfElems(el)) \cup PresentPattern(cfg, PathOfElems(el)) # {}

InList(el) == \E i \in 1..Len(projects) : Elems(projects[i].Path) = el

\* C8: with Nested true, every directory under a search root that contains a
\* configured marker is returned, provided its depth is at most MaxDepth and
\* no directory from the root down to it is excluded or ignored.
C8_NestedAllReturned ==
    (Returned /\ config.Nested) =>
      \A w \in Roots :
        Launched(w) =>
          \A d \in Beneath(Elems(walkers[w].root)) :
            ( /\ HasMarker(config, d)
              /\ Len(d) - Len(Elems(walkers[w].root)) <= config.MaxDepth
              /\ Unpruned(config, Elems(walkers[w].root), d) ) => InList(d)

\* the levels between a walker's search root and a path
LevelsBelow(root, path) == Len(Elems(path)) - Len(Elems(root))

\* C9: no project lies more than MaxDepth levels below the search root of
\* the walker that emitted it, and a marked directory at depth MaxDepth that
\* nothing prunes is returned.
C9_WithinMaxDepth ==
    /\ \A e \in emitted : LevelsBelow(walkers[e[2]].root, e[1].Path) <= config.MaxDepth
    /\ (Returned /\ config.Nested) =>
         \A w \in Roots :
           Launched(w) =>
             \A d \in Beneath(Elems(walkers[w].root)) :
               ( /\ HasMarker(config, d)
                 /\ Len(d) - Len(Elems(walkers[w].root)) = config.MaxDepth
                 /\ Unpruned(config, Elems(walkers[w].root), d) ) => InList(d)

\* C10: no emitted project has, from the search root of its walker down to
\* its own directory, a directory whose name matches an exclude pattern.
C10_NoExcludedOnPath ==
    \A e \in emitted :
      LET el == Elems(e[1].Path)
      IN \A k \in Len(Elems(walkers[e[2]].root))..Len(el) :
           k >= 1 => ~ExcludedName(config, el[k])

C10_Witness ==
    /\ Returned
    /\ config.Excludes = <<<<"x">>>>
    /\ config.SearchPaths = <<RootR>>
    /\ config.MaxDepth >= 1
    /\ ResolveMarker(config, PathOfElems(DirX))[1] # NoMarker
    /\ emitted # {}
    /\ \A e \in emitted : Elems(e[1].Path) # DirX

\* ------------------------------------------------------------------ claims on the ignore rules

\* walker w is about to run its callback on the directory at the head of todo
Visiting(w) == walkers[w].status = "walking" /\ walkers[w].todo # <<>>

\* the callback of walker w on that directory returns fs.SkipDir for the
\* ignore rules
SkipsNext(w) ==
    SkippedByIgnore(config, walkers[w].root, Head(walkers[w].todo),
                    walkers[w].stack, walkers[w].previousDepth)

\* C11: a directory a walker visits is skipped by the ignore rules if and
\* only if NoIgnore is false and an ignore file in one of its proper
\* ancestors inside the walk, the search root included, has a pattern that
\* matches its path relative to that ancestor.
C11_SkippedIffAncestorPattern ==
    \A w \in Roots :
      Visiting(w) =>
        (SkipsNext(w) <=>
           IgnoredByAncestor(config, Elems(walkers[w].root), Elems(Head(walkers[w].todo))))

Unsorted(ss) == ss

\* sort.Strings on a copy: the strings in bytewise order
SortStrings(ss) ==
    LET before(j, k) == StrLess(ss[j], ss[k]) \/ (ss[j] = ss[k] /\ j < k)
        rank(k) == 1 + Cardinality({j \in 1..Len(ss) : j # k /\ before(j, k)})
    IN [i \in 1..Len(ss) |-> ss[CHOOSE k \in 1..Len(ss) : rank(k) = i]]

\* strings.Join(elems, sep)
RECURSIVE StringsJoin(_, _)
StringsJoin(elems, sep) ==
    IF elems = <<>> THEN <<>>
    ELSE IF Len(elems) = 1 THEN elems[1]
    ELSE elems[1] \o sep \o StringsJoin(Tail(elems), sep)

Digits == <<"0", "1", "2", "3", "4", "5", "6", "7", "8", "9">>

\* fmt.Sprintf("%d", n)
RECURSIVE FormatInt(_)
FormatInt(n) ==
    IF n < 0 THEN <<"-">> \o FormatInt(-n)
    ELSE IF n < 10 THEN <<Digits[n + 1]>>
    ELSE FormatInt(n \div 10) \o <<Digits[(n % 10) + 1]>>

\* fmt.Sprintf("%t", b)
FormatBool(b) == IF b THEN <<"t", "r", "u", "e">> ELSE <<"f", "a", "l", "s", "e">>

\* the hash of the configuration. SHA-256 (and its first 16 hex digits) is
\* taken as injective: the digest is represented by the bytes
\* computeConfigHash writes to the hash, in the order it writes them.
computeConfigHash(cfg) ==
    StringsJoin(SortStrings(cfg.SearchPaths), <<"|">>)
      \o StringsJoin(SortStrings(cfg.Markers), <<"|">>)
      \o StringsJoin(SortStrings(cfg.Excludes), <<"|">>)
      \o FormatInt(cfg.MaxDepth)
      \o FormatBool(cfg.NoIgnore)

\* the cache file of the configuration, cache-<hash>.json in the cache
\* directory: files are identified by the hash
getCachePath(cfg) == computeConfigHash(cfg)

\* ------------------------------------------------------------------ cache: JSON

\* a []discover.Project value: nil, or a slice with its elements
NilProjects == [isNil |-> TRUE, elems |-> <<>>]

Slice(elems) == [isNil |-> FALSE, elems |-> elems]

\* JSON text as its sequence of tokens (white space left out); a string or a
\* number token carries its characters. json.Marshal writes the characters
\* of the snapshot's names as they are (none of them is escaped).
Tok(t) == [t |-> t, v |-> <<>>]
StrTok(chars) == [t |-> "string", v |-> chars]
NumTok(n) == [t |-> "number", v |-> FormatInt(n)]

PathKey == <<"P", "a", "t", "h">>
MarkerKey == <<"M", "a", "r", "k", "e", "r">>
PriorityKey == <<"P", "r", "i", "o", "r", "i", "t", "y">>

\* an encoder that leaves the priority out
MarshalProjectNoPriority(p) ==
    << Tok("{"), StrTok(PathKey), Tok(":"), StrTok(p.Path), Tok(","),
       StrTok(MarkerKey), Tok(":"), StrTok(p.Marker), Tok("}") >>

\* the JSON object of a Project: its exported fields under their own names
MarshalProject(p) ==
    << Tok("{"), StrTok(PathKey), Tok(":"), StrTok(p.Path), Tok(","),
       StrTok(MarkerKey), Tok(":"), StrTok(p.Marker), Tok(","),
       StrTok(PriorityKey), Tok(":"), NumTok(p.Priority), Tok("}") >>

RECURSIVE MarshalElems(_)
MarshalElems(elems) ==
    IF elems = <<>> THEN <<>>
    ELSE IF Len(elems) = 1 THEN MarshalProject(elems[1])
    ELSE MarshalProject(elems[1]) \o <<Tok(",")>> \o MarshalElems(Tail(elems))

\* json.MarshalIndent(projects, "", "  "): a nil slice is written as null
Marshal(list) ==
    IF list.isNil THEN <<Tok("null")>>
    ELSE <<Tok("[")>> \o MarshalElems(list.elems) \o <<Tok("]")>>

\* strconv on a number token's characters
RECURSIVE ParseDigits(_, _)
ParseDigits(chars, acc) ==
    IF chars = <<>> THEN acc
    ELSE ParseDigits(Tail(chars),
                     10 * acc + ((CHOOSE i \in 1..10 : Digits[i] = Head(chars)) - 1))

ParseInt(chars) ==
    IF Head(chars) = "-" THEN 0 - ParseDigits(Tail(chars), 0) ELSE ParseDigits(chars, 0)

\* a member "key": value stored into the Project; a key that names no field
\* is skipped, a value of the wrong kind is an error
SetField(p, key, val) ==
    IF key = PathKey
    THEN [ok |-> val.t = "string", p |-> IF val.t = "string" THEN [p EXCEPT !.Path = val.v] ELSE p]
    ELSE IF key = MarkerKey
    THEN [ok |-> val.t = "string", p |-> IF val.t = "string" THEN [p EXCEPT !.Marker = val.v] ELSE p]
    ELSE IF key = PriorityKey
    THEN [ok |-> val.t = "number", p |-> IF val.t = "number" THEN [p EXCEPT !.Priority = ParseInt(val.v)] ELSE p]
    ELSE [ok |-> val.t \in {"string", "number"}, p |-> p]

\* the members of an object after "{" or ",": the Project, and the tokens
\* after the closing "}"
RECURSIVE ParseMembers(_, _)
ParseMembers(toks, p) ==
    IF Len(toks) < 4 \/ toks[1].t # "string" \/ toks[2].t # ":" THEN [ok |-> FALSE]
    ELSE LET f == SetField(p, toks[1].v, toks[3])
             rest == SubSeq(toks, 5, Len(toks))
         IN IF ~f.ok THEN [ok |-> FALSE]
            ELSE IF toks[4].t = "}" THEN [ok |-> TRUE, p |-> f.p, rest |-> rest]
            ELSE IF toks[4].t = "," THEN ParseMembers(rest, f.p)
            ELSE [ok |-> FALSE]

\* an object decoded into a zero Project
ParseObject(toks) ==
    IF Len(toks) < 2 \/ toks[1].t # "{" THEN [ok |-> FALSE]
    ELSE LET zero == [Path |-> <<>>, Marker |-> <<>>, Priority |-> 0]
         IN IF toks[2].t = "}" THEN [ok |-> TRUE, p |-> zero, rest |-> SubSeq(toks, 3, Len(toks))]
            ELSE ParseMembers(Tail(toks), zero)

\* the elements of an array after "[" or ",": the list up to the closing "]",
\* which must end the text
RECURSIVE ParseElems(_, _)
ParseElems(toks, acc) ==
    LET o == ParseObject(toks)
    IN IF ~o.ok \/ o.rest = <<>> THEN [ok |-> FALSE]
       ELSE IF o.rest[1].t = "]"
            THEN [ok |-> Len(o.rest) = 1, list |-> Slice(Append(acc, o.p))]
       ELSE IF o.rest[1].t = "," THEN ParseElems(Tail(o.rest), Append(acc, o.p))
       ELSE [ok |-> FALSE]

\* json.Unmarshal(data, &projects) into a nil slice: null leaves it nil, an
\* array fills it, anything else is an error
Unmarshal(toks) ==
    IF toks = <<Tok("null")>> THEN [ok |-> TRUE, list |-> NilProjects]
    ELSE IF toks = <<Tok("["), Tok("]")>> THEN [ok |-> TRUE, list |-> Slice(<<>>)]
    ELSE IF toks # <<>> /\ toks[1].t = "[" THEN ParseElems(Tail(toks), <<>>)
    ELSE [ok |-> FALSE]

\* ------------------------------------------------------------------ cache: Manager

ErrNone == "nil"
ErrNotFound == "cache not found"
ErrExpired == "cache expired"
ErrUnmarshal == "json: cannot unmarshal"

\* an entry that expires as soon as its age reaches the TTL
ExpiredAtTTL(age, ttl) == age >= ttl

\* Get: the file is older than the configured TTL
Expired(age, ttl) == age > ttl

\* os.Stat(cachePath) fails with a not-exist error
Missing(dir, path) == ~dir.exists \/ path \notin DOMAIN dir.files

\* a Get that parses the file before it looks at its age
GetParseFirst(cfg, dir, time) ==
    LET path == getCachePath(cfg) IN
    IF Missing(dir, path) THEN [projects |-> NilProjects, err |-> ErrNotFound]
    ELSE IF ~Unmarshal(dir.files[path].data).ok
         THEN [projects |-> NilProjects, err |-> ErrUnmarshal]
    ELSE IF Expired(time - dir.files[path].mtime, cfg.CacheTTL)
         THEN [projects |-> NilProjects, err |-> ErrExpired]
    ELSE [projects |-> Unmarshal(dir.files[path].data).list, err |-> ErrNone]

\* Manager.Get at the given time: the returned list and error
Get(cfg, dir, time) ==
    LET path == getCachePath(cfg) IN
    IF Missing(dir, path) THEN [projects |-> NilProjects, err |-> ErrNotFound]
    ELSE IF Expired(time - dir.files[path].mtime, cfg.CacheTTL)
         THEN [projects |-> NilProjects, err |-> ErrExpired]
    ELSE IF ~Unmarshal(dir.files[path].data).ok
         THEN [projects |-> NilProjects, err |-> ErrUnmarshal]
    ELSE [projects |-> Unmarshal(dir.files[path].data).list, err |-> ErrNone]

\* the directory with the file of path removed
Without(files, path) == [k \in DOMAIN files \ {path} |-> files[k]]

\* the function f with the value v at k
Put(f, k, v) == [x \in DOMAIN f \cup {k} |-> IF x = k THEN v ELSE f[x]]

\* Manager.Set at the given time: os.MkdirAll, then os.WriteFile of the
\* marshalled list; the directory it leaves
Set(cfg, list, dir, time) ==
    [exists |-> TRUE,
     files |-> Put(dir.files, getCachePath(cfg), [data |-> Marshal(list), mtime |-> time])]

\* a Clear that removes the file of its own configuration only
ClearOwnFile(cfg, dir) ==
    [exists |-> dir.exists, files |-> Without(dir.files, getCachePath(cfg))]

\* Manager.Clear: os.RemoveAll(cacheDir), no error when the directory is absent
Clear(cfg, dir) == [exists |-> FALSE, files |-> NoFiles]

\* ------------------------------------------------------------------ cache: pj runs

\* IsPatternMarker
IsPatternMarker(marker) == ContainsAny(marker, {"*", "?", "[", "]"})

\* EnsureMarkerCategories: the markers split into exact names and patterns
EnsureMarkerCategories(markers) ==
    [exact |-> SelectSeq(markers, LAMBDA m : ~IsPatternMarker(m)),
     pattern |-> SelectSeq(markers, IsPatternMarker)]

\* the configuration of a run: the default max depth and a TTL of one second
BaseConfig ==
    [SearchPaths |-> <<RootR>>, Markers |-> <<DotGit, GoMod>>, Priorities |-> <<>>,
     Excludes |-> <<>>, MaxDepth |-> 3, NoIgnore |-> FALSE, Nested |-> FALSE,
     CacheTTL |-> 1]

\* the configurations pj is run with: the base, and variants in one field
RunConfigs ==
    { BaseConfig,
      [BaseConfig EXCEPT !.Nested = TRUE],
      [BaseConfig EXCEPT !.CacheTTL = -1],
      [BaseConfig EXCEPT !.SearchPaths = <<RootNX>>],
      [BaseConfig EXCEPT !.Markers = <<DotGit>>, !.Excludes = <<<<"x">>>>],
      [BaseConfig EXCEPT !.Markers = <<DotGit \o <<"x">>>>] }

\* how pj is started: plainly, with --no-cache, with paths piped on stdin,
\* with --clear-cache
Modes == {"normal", "nocache", "stdin", "clear"}

\* main: paths read from stdin replace the configured search paths
RunConfig(c, mode) ==
    IF mode = "stdin" THEN [c EXCEPT !.SearchPaths = <<RootRSlash>>] ELSE c

\* discover.New(cfg).Discover() as main calls it: the list Discover returns,
\* nil when nothing was appended to it
DiscoverCall(cfg) ==
    LET found == SequentialResult(MakeConfig(
                   [SearchPaths |-> cfg.SearchPaths,
                    Markers |-> EnsureMarkerCategories(cfg.Markers),
                    Priorities |-> cfg.Priorities, MaxDepth |-> cfg.MaxDepth,
                    Excludes |-> cfg.Excludes, NoIgnore |-> cfg.NoIgnore,
                    Nested |-> cfg.Nested]))
    IN IF found = <<>> THEN NilProjects ELSE Slice(found)

\* DiscoverCall tabulated over the configurations of the runs
DiscoverTable ==
    [cfg \in {RunConfig(c, mode) : c \in RunConfigs, mode \in Modes} |-> DiscoverCall(cfg)]

NoRunning == pj.pc \in {"idle", "exit"}

\* the history entry of a completed Set
StoredEntry(cfg, list, by) == [cfg |-> cfg, list |-> list, time |-> clock, by |-> by]

\* the stored entry a Get of cfg finds still within its TTL, if there is one
FreshEntry(cfg) ==
    LET path == getCachePath(cfg) IN
    IF path \in DOMAIN stored /\ stored[path].cfg = cfg
                              /\ clock - stored[path].time <= cfg.CacheTTL
    THEN <<stored[path]>> ELSE <<>>

\* a pj process starts: flags parsed, configuration loaded and merged
StartRun ==
    /\ NoRunning
    /\ calls < MaxCalls
    /\ \E c \in RunConfigs, mode \in Modes :
         pj' = [pc |-> "flags", cfg |-> RunConfig(c, mode), mode |-> mode,
                projects |-> NilProjects, fresh |-> <<>>, discovered |-> FALSE,
                wrote |-> FALSE, output |-> NilProjects]
    /\ calls' = calls + 1
    /\ UNCHANGED <<clock, cacheDir, stored, last, cleared>>
    /\ UNCHANGED <<discovervars, directvars>>

\* main with --clear-cache: Clear, then exit
RunClear ==
    /\ pj.pc = "flags"
    /\ pj.mode = "clear"
    /\ cacheDir' = Clear(pj.cfg, cacheDir)
    /\ cleared' = [done |-> TRUE, by |-> getCachePath(pj.cfg),
                   removed |-> (DOMAIN cacheDir.files) \ (DOMAIN cacheDir'.files),
                   written |-> {}]
    /\ stored' = [k \in (DOMAIN stored) \cap (DOMAIN cacheDir'.files) |-> stored[k]]
    /\ last' = [op |-> "Clear", cfg |-> pj.cfg, time |-> clock, err |-> ErrNone,
                before |-> cacheDir, prev |-> NoCall]
    /\ pj' = [pj EXCEPT !.pc = "exit"]
    /\ UNCHANGED <<clock, calls>>
    /\ UNCHANGED <<discovervars, directvars>>

\* main without --no-cache and without piped paths: Get, and the cached list
\* is taken when Get returned no error and a list that is not nil
RunGet ==
    /\ pj.pc = "flags"
    /\ pj.mode = "normal"
    /\ \E g \in {Get(pj.cfg, cacheDir, clock)} :
         /\ last' = [op |-> "Get", cfg |-> pj.cfg, time |-> clock, err |-> g.err,
                     projects |-> g.projects,
                     prev |-> IF last.op = "Set"
                              THEN [op |-> "Set", cfg |-> last.cfg, time |-> last.time,
                                    list |-> last.list]
                              ELSE NoCall]
         /\ pj' = [pj EXCEPT !.pc = "cached",
                             !.fresh = FreshEntry(pj.cfg),
                             !.projects = IF g.err = ErrNone /\ ~g.projects.isNil
                                          THEN g.projects ELSE NilProjects]
    /\ UNCHANGED <<clock, cacheDir, stored, cleared, calls>>
    /\ UNCHANGED <<discovervars, directvars>>

\* main with --no-cache or piped paths: the cache is not read
RunSkipCache ==
    /\ pj.pc = "flags"
    /\ pj.mode \in {"nocache", "stdin"}
    /\ pj' = [pj EXCEPT !.pc = "cached"]
    /\ UNCHANGED <<clock, cacheDir, stored, last, cleared, calls>>
    /\ UNCHANGED <<discovervars, directvars>>

\* main: projects == nil, so the discoverer runs
RunDiscover ==
    /\ pj.pc = "cached"
    /\ pj.projects.isNil
    /\ pj' = [pj EXCEPT !.pc = "store", !.discovered = TRUE,
                        !.projects = DiscoverTable[pj.cfg]]
    /\ UNCHANGED <<clock, cacheDir, stored, last, cleared, calls>>
    /\ UNCHANGED <<discovervars, directvars>>

\* main: the cached list is used as it is
RunUseCached ==
    /\ pj.pc = "cached"
    /\ ~pj.projects.isNil
    /\ pj' = [pj EXCEPT !.pc = "output"]
    /\ UNCHANGED <<clock, cacheDir, stored, last, cleared, calls>>
    /\ UNCHANGED <<discovervars, directvars>>

\* main after discovery: Set unless the paths came from stdin
RunSet ==
    /\ pj.pc = "store"
    /\ IF pj.mode = "stdin"
       THEN /\ pj' = [pj EXCEPT !.pc = "output"]
            /\ UNCHANGED <<cacheDir, stored, last, cleared>>
       ELSE /\ cacheDir' = Set(pj.cfg, pj.projects, cacheDir, clock)
            /\ stored' = Put(stored, getCachePath(pj.cfg), StoredEntry(pj.cfg, pj.projects, "run"))
            /\ last' = [op |-> "Set", cfg |-> pj.cfg, time |-> clock, err |-> ErrNone,
                        list |-> pj.projects, prev |-> NoCall]
            /\ cleared' = [cleared EXCEPT !.written = @ \cup {getCachePath(pj.cfg)}]
            /\ pj' = [pj EXCEPT !.pc = "output", !.wrote = TRUE]
    /\ UNCHANGED <<clock, calls>>
    /\ UNCHANGED <<discovervars, directvars>>

\* main prints the list and exits
RunOutput ==
    /\ pj.pc = "output"
    /\ pj' = [pj EXCEPT !.pc = "exit", !.output = pj.projects]
    /\ UNCHANGED <<clock, cacheDir, stored, last, cleared, calls>>
    /\ UNCHANGED <<discovervars, directvars>>

\* a direct caller of the package (as its tests are) calls Set with a list:
\* nil, empty, or of two projects
DirectSet ==
    /\ NoRunning
    /\ calls < MaxCalls
    /\ \E c \in {BaseConfig, [BaseConfig EXCEPT !.CacheTTL = -1]},
          list \in { NilProjects, Slice(<<>>),
                     Slice(<<[Path |-> RootR, Marker |-> GoMod, Priority |-> 10],
                             [Path |-> RootNX, Marker |-> DotGit, Priority |-> -5]>>) } :
         /\ cacheDir' = Set(c, list, cacheDir, clock)
         /\ stored' = Put(stored, getCachePath(c), StoredEntry(c, list, "direct"))
         /\ last' = [op |-> "Set", cfg |-> c, time |-> clock, err |-> ErrNone,
                     list |-> list, prev |-> NoCall]
         /\ cleared' = [cleared EXCEPT !.written = @ \cup {getCachePath(c)}]
    /\ calls' = calls + 1
    /\ UNCHANGED <<clock, pj>>
    /\ UNCHANGED <<discovervars, directvars>>

\* something else than Set writes a cache file: content that is no list of
\* projects (the tests write such files to provoke a corrupt cache), here a
\* list cut short or an object
Tamper ==
    /\ NoRunning
    /\ calls < MaxCalls
    /\ \E path \in {getCachePath(c) : c \in RunConfigs},
          data \in { <<Tok("["), Tok("{"), StrTok(PathKey), Tok(":")>>,
                     <<Tok("{"), Tok("}")>> } :
         /\ cacheDir' = [exists |-> TRUE,
                         files |-> Put(cacheDir.files, path, [data |-> data, mtime |-> clock])]
         /\ stored' = Without(stored, path)
         /\ cleared' = [cleared EXCEPT !.written = @ \cup {path}]
    /\ last' = [op |-> "Tamper"]
    /\ calls' = calls + 1
    /\ UNCHANGED <<clock, pj>>
    /\ UNCHANGED <<discovervars, directvars>>

\* a second passes
Tick ==
    /\ clock < MaxTime
    /\ clock' = clock + 1
    /\ UNCHANGED <<cacheDir, pj, stored, last, cleared, calls>>
    /\ UNCHANGED <<discovervars, directvars>>

\* no call of Discover is modelled step by step in the cache specification
DiscoverAtRest ==
    /\ config = BaseConfig
    /\ mainpc = "returned"
    /\ next = 1
    /\ walkers = <<>>
    /\ wg = 0
    /\ closerpc = "closed"
    /\ results = <<>>
    /\ closes = 1
    /\ seen = {}
    /\ projects = <<>>
    /\ err = "nil"
    /\ emitted = {}

CacheInit == CacheAtRest /\ DiscoverAtRest /\ NoDirectUse

CacheNext ==
    \/ StartRun
    \/ RunClear
    \/ RunGet
    \/ RunSkipCache
    \/ RunDiscover
    \/ RunUseCached
    \/ RunSet
    \/ RunOutput
    \/ DirectSet
    \/ Tamper
    \/ Tick

\* pj processes run one after the other against one cache directory, with
\* the discovery of each run taken as one call
CacheSpec == CacheInit /\ [][CacheNext]_vars

\* ------------------------------------------------------------------ direct calls

\* matchPattern called with a directory name and an exclude pattern
CallMatchPattern ==
    /\ \E name \in { <<"a">>, <<"a", "b">>, <<"b", "a">>, <<"b", "a", "b">>,
                      <<"*", "b", "x">> },
          pattern \in { <<"a", "b">>, <<"*">>, <<"*", "b">>, <<"a", "*">>,
                        <<"*", "a", "*">>, <<"*", "b", "*">>, <<"b", "?", "*">>,
                        <<"?", "a", "?">>, <<"[", "a", "b", "]", "b">> } :
         call' = [op |-> "matchPattern", name |-> name, pattern |-> pattern,
                  result |-> matchPattern(name, pattern)]
    /\ UNCHANGED <<setter, istack>>
    /\ UNCHANGED <<discovervars, cachevars>>

\* computeConfigHash called for a configuration whose lists come in either
\* order; the sort works on copies, so the configuration holds its lists as
\* before
CallComputeConfigHash ==
    /\ \E sp \in {<<RootR>>, <<RootR, RootNX>>, <<RootNX, RootR>>},
          mk \in {<<DotGit, GoMod>>, <<GoMod, DotGit>>},
          ex \in {<<>>, <<<<"x">>, <<"s">>>>, <<<<"s">>, <<"x">>>>} :
         \E cfg \in {[BaseConfig EXCEPT !.SearchPaths = sp, !.Markers = mk, !.Excludes = ex]} :
           call' = [op |-> "computeConfigHash", cfg |-> cfg,
                    result |-> computeConfigHash(cfg), held |-> cfg]
    /\ UNCHANGED <<setter, istack>>
    /\ UNCHANGED <<discovervars, cachevars>>

\* the marker resolution of walkPath for a directory of the snapshot, with
\* exact and pattern markers in either order and priorities that make them tie
CallResolveMarker ==
    /\ \E exact \in {<<DotGit, GoMod>>, <<GoMod, DotGit>>},
          pattern \in {<<>>, <<StarC, <<"n", ".", "*">>>>, <<<<"n", ".", "*">>, StarC>>},
          priorities \in { <<>>, (DotGit :> 10),
                           (DotGit :> 10) @@ (StarC :> 10) @@ (<<"n", ".", "*">> :> 10) },
          dir \in {<<Sep>> \o JoinElems(DirA), <<Sep>> \o JoinElems(DirAS),
                   <<Sep>> \o JoinElems(DirX)} :
         \E cfg \in {[ExactMarkers |-> exact, PatternMarkers |-> pattern,
                       Priorities |-> priorities]} :
           call' = [op |-> "ResolveMarker", cfg |-> cfg, dir |-> dir,
                    result |-> ResolveMarker(cfg, dir)]
    /\ UNCHANGED <<setter, istack>>
    /\ UNCHANGED <<discovervars, cachevars>>

\* IgnoreStack.Enter called on an enabled stack with any depth
CallEnter ==
    /\ Len(istack) < MaxStack
    /\ \E dir \in {<<Sep>> \o JoinElems(DirR), <<Sep>> \o JoinElems(DirA),
                    <<Sep>> \o JoinElems(DirB)},
          depth \in 0..2 :
         /\ istack' = Enter(TRUE, istack, dir, depth)
         /\ call' = [op |-> "Enter", dir |-> dir, depth |-> depth, before |-> istack]
    /\ UNCHANGED setter
    /\ UNCHANGED <<discovervars, cachevars>>

\* IgnoreStack.Leave called on an enabled stack with any depth
CallLeave ==
    /\ \E depth \in 0..3 :
         /\ istack' = Leave(TRUE, istack, depth)
         /\ call' = [op |-> "Leave", depth |-> depth, before |-> istack]
    /\ UNCHANGED setter
    /\ UNCHANGED <<discovervars, cachevars>>

DirectNext ==
    \/ CallMatchPattern
    \/ CallComputeConfigHash
    \/ CallResolveMarker
    \/ CallEnter
    \/ CallLeave

\* the functions of the packages called directly, one call after the other
DirectSpec == CacheInit /\ [][DirectNext]_vars

\* ------------------------------------------------------------------ a Set and a Get at once

\* Manager.Set up to the opening of the file: os.MkdirAll, json.MarshalIndent,
\* and os.WriteFile opening the cache file with O_CREATE and O_TRUNC, which
\* leaves the file empty until the data is written
SetBegin ==
    /\ setter.pc = "idle"
    /\ calls < MaxCalls
    /\ \E list \in { NilProjects, Slice(<<>>),
                      Slice(<<[Path |-> RootR, Marker |-> GoMod, Priority |-> 10],
                              [Path |-> RootNX, Marker |-> DotGit, Priority |-> 1]>>) } :
         /\ setter' = [pc |-> "writing", cfg |-> BaseConfig, list |-> list,
                       data |-> Marshal(list), before |-> cacheDir, began |-> clock]
         /\ cacheDir' = [exists |-> TRUE,
                         files |-> Put(cacheDir.files, getCachePath(BaseConfig),
                                       [data |-> <<>>, mtime |-> clock])]
    /\ calls' = calls + 1
    /\ UNCHANGED <<clock, pj, stored, last, cleared, call, istack>>
    /\ UNCHANGED discovervars

\* os.WriteFile writes: the file grows by a part of the data that is left,
\* and Set returns when all of it is written
SetWrite ==
    /\ setter.pc = "writing"
    /\ \E n \in 1..Len(setter.data) :
         /\ n > Len(cacheDir.files[getCachePath(setter.cfg)].data)
         /\ cacheDir' = [cacheDir EXCEPT !.files[getCachePath(setter.cfg)] =
                                           [data |-> SubSeq(setter.data, 1, n), mtime |-> clock]]
         /\ IF n = Len(setter.data)
            THEN /\ setter' = [pc |-> "idle"]
                 /\ stored' = Put(stored, getCachePath(setter.cfg),
                                  StoredEntry(setter.cfg, setter.list, "direct"))
                 /\ cleared' = [cleared EXCEPT !.written = @ \cup {getCachePath(setter.cfg)}]
            ELSE UNCHANGED <<setter, stored, cleared>>
    /\ UNCHANGED <<clock, pj, last, calls, call, istack>>
    /\ UNCHANGED discovervars

\* another process calls Get for the same configuration, while a Set is in
\* progress or not
ConcurrentGet ==
    /\ \E got \in {Get(BaseConfig, cacheDir, clock)} :
         last' = [op |-> "Get", cfg |-> BaseConfig, time |-> clock, err |-> got.err,
                  list |-> got.projects, during |-> setter]
    /\ UNCHANGED <<clock, cacheDir, pj, stored, cleared, calls>>
    /\ UNCHANGED <<discovervars, directvars>>

RaceNext ==
    \/ SetBegin
    \/ SetWrite
    \/ ConcurrentGet
    \/ Tick

\* one process writes the cache with Set while another reads it with Get
RaceSpec == CacheInit /\ [][RaceNext]_vars

\* ------------------------------------------------------------------ claims on the cache

\* the last call was a Get that followed a Set of the same configuration with
\* no call and no other write in between
GetAfterSet ==
    last.op = "Get" /\ last.prev.op = "Set" /\ last.prev.cfg = last.cfg

\* the last Get returned the list, without error
Returns(list) == last.err = ErrNone /\ last.projects.elems = list.elems

\* C13 as stated: for every configuration and list, Set followed at once by
\* Get under the same configuration returns a list equal to the one stored.
C13_RoundTrip ==
    (GetAfterSet /\ last.time = last.prev.time) => Returns(last.prev.list)

\* C13 amended: Set followed by Get under the same configuration returns a
\* list equal to the one stored provided the Get comes no more than
\* CacheTTL seconds after the Set (never, when CacheTTL is negative).
C13_RoundTripWithinTTL ==
    (GetAfterSet /\ last.time - last.prev.time <= last.cfg.CacheTTL) =>
      Returns(last.prev.list)

C13_Witness ==
    /\ GetAfterSet
    /\ last.time = last.prev.time
    /\ Len(last.prev.list.elems) = 2
    /\ last.prev.list.elems[2].Priority < 0
    /\ Returns(last.prev.list)

\* the last call was a Get of a configuration whose file was last written by
\* a completed Set of that configuration, not cleared since
GetOfStored ==
    /\ last.op = "Get"
    /\ getCachePath(last.cfg) \in DOMAIN stored
    /\ stored[getCachePath(last.cfg)].cfg = last.cfg

\* C14: after a Set at time t with no later Set or Clear, Get under the same
\* configuration returns the stored list while t' - t <= CacheTTL and
\* reports Expired when t' - t > CacheTTL; the file keeps the time of the
\* Set, whatever Gets were made.
C14_FreshUntilTTL ==
    /\ GetOfStored =>
         LET e == stored[getCachePath(last.cfg)]
         IN IF last.time - e.time <= last.cfg.CacheTTL
            THEN Returns(e.list)
            ELSE last.err = ErrExpired
    /\ \A k \in DOMAIN stored : cacheDir.files[k].mtime = stored[k].time

C14_Witness ==
    /\ GetOfStored
    /\ last.cfg.CacheTTL = 1
    /\ last.time - stored[getCachePath(last.cfg)].time = 2
    /\ Unmarshal(cacheDir.files[getCachePath(last.cfg)].data).ok
    /\ last.err = ErrExpired

\* C15: Get reports NotFound when the configuration has no cache file,
\* otherwise Expired when the file is older than CacheTTL, otherwise Corrupt
\* when the content does not parse as a list of projects, otherwise the
\* list and no error; the outcomes differ from one another.
C15_GetPrecedence ==
    /\ Cardinality({ErrNone, ErrNotFound, ErrExpired, ErrUnmarshal}) = 4
    /\ last.op = "Get" =>
         IF Missing(cacheDir, getCachePath(last.cfg))
         THEN last.err = ErrNotFound
         ELSE LET f == cacheDir.files[getCachePath(last.cfg)]
              IN IF last.time - f.mtime > last.cfg.CacheTTL THEN last.err = ErrExpired
                 ELSE IF ~Unmarshal(f.data).ok THEN last.err = ErrUnmarshal
                 ELSE last.err = ErrNone /\ last.projects = Unmarshal(f.data).list

C15_Witness ==
    /\ last.op = "Get"
    /\ ~Missing(cacheDir, getCachePath(last.cfg))
    /\ last.cfg.CacheTTL >= 0
    /\ last.time - cacheDir.files[getCachePath(last.cfg)].mtime > last.cfg.CacheTTL
    /\ ~Unmarshal(cacheDir.files[getCachePath(last.cfg)].data).ok
    /\ last.err = ErrExpired

\* C16: after Clear, Get reports NotFound for every configuration until a
\* Set writes that configuration's file again; Clear returns no error and
\* leaves no cache directory, also when there was none.
C16_ClearEmptiesCache ==
    /\ (last.op = "Get" /\ cleared.done /\ getCachePath(last.cfg) \notin cleared.written) =>
         last.err = ErrNotFound
    /\ last.op = "Clear" =>
         last.err = ErrNone /\ cacheDir = [exists |-> FALSE, files |-> NoFiles]

C16_Witness ==
    /\ last.op = "Get"
    /\ cleared.done
    /\ getCachePath(last.cfg) \in cleared.removed
    /\ getCachePath(last.cfg) # cleared.by
    /\ getCachePath(last.cfg) \notin cleared.written
    /\ last.err = ErrNotFound

\* C17: when a run stored its discovered list with Set, the next run with
\* the same configuration within CacheTTL, without --no-cache or piped
\* paths, prints the stored list, runs no discovery and does not write the
\* cache, whatever the stored list is.
C17_HitSkipsDiscovery ==
    (pj.pc = "exit" /\ pj.mode = "normal" /\ pj.fresh # <<>> /\ pj.fresh[1].by = "run") =>
      /\ pj.output.elems = pj.fresh[1].list.elems
      /\ ~pj.discovered
      /\ ~pj.wrote

\* a pj process has been started and has its configuration
Started == pj.pc # "idle"

\* C18: configurations for which discovery returns different lists have
\* different cache keys, so Get never returns a list that a run stored
\* under a configuration whose discovery result is different.
C18_KeyCoversDiscoveryInputs ==
    /\ \A k \in DOMAIN stored :
         (Started /\ DiscoverTable[stored[k].cfg] # DiscoverTable[pj.cfg]) =>
           getCachePath(pj.cfg) # k
    /\ ( /\ last.op = "Get"
         /\ last.err = ErrNone
         /\ getCachePath(last.cfg) \in DOMAIN stored
         /\ stored[getCachePath(last.cfg)].by = "run" ) =>
           last.projects = DiscoverTable[last.cfg]

\* the fields other than Nested that the claim on Nested holds equal
SameButNested(c1, c2) ==
    /\ c1.SearchPaths = c2.SearchPaths
    /\ c1.Markers = c2.Markers
    /\ c1.Excludes = c2.Excludes
    /\ c1.MaxDepth = c2.MaxDepth
    /\ c1.NoIgnore = c2.NoIgnore

\* C19: configurations equal in search paths, markers, excludes, max depth
\* and NoIgnore that differ in Nested have different hashes, hence
\* different cache files.
C19_NestedInHash ==
    \A k \in DOMAIN stored :
      (Started /\ SameButNested(stored[k].cfg, pj.cfg) /\ stored[k].cfg.Nested # pj.cfg.Nested) =>
        /\ computeConfigHash(pj.cfg) # computeConfigHash(stored[k].cfg)
        /\ getCachePath(pj.cfg) # k

\* the hashed fields agree: the lists as multisets, the scalars as values
SameHashedFields(c1, c2) ==
    /\ SortStrings(c1.SearchPaths) = SortStrings(c2.SearchPaths)
    /\ SortStrings(c1.Markers) = SortStrings(c2.Markers)
    /\ SortStrings(c1.Excludes) = SortStrings(c2.Excludes)
    /\ c1.MaxDepth = c2.MaxDepth
    /\ c1.NoIgnore = c2.NoIgnore

\* C20: two configurations have the same hash only if their search paths,
\* markers and excludes are equal as multisets and their max depth and
\* NoIgnore are equal.
C20_HashInjective ==
    \A k \in DOMAIN stored :
      (Started /\ computeConfigHash(pj.cfg) = computeConfigHash(stored[k].cfg)) =>
        SameHashedFields(pj.cfg, stored[k].cfg)

\* ------------------------------------------------------------------ claims on depth and the ignore stack

\* C23: for every directory a walker visits, currentDepth is the number of
\* path components between the search root and the directory, whatever the
\* text of the configured root.
C23_DepthIsComponents ==
    \A w \in Roots :
      Visiting(w) =>
        CurrentDepth(walkers[w].root, Head(walkers[w].todo)) =
          Len(Elems(Head(walkers[w].todo))) - Len(Elems(walkers[w].root))

\* the ignore files of the directory el, in the order Enter looks for them,
\* each as <<directory, patterns>>
IgnoreFilesOf(el) ==
    LET found == SelectSeq(ignoreFileNames, LAMBDA f : Append(el, f) \in EntryElems)
    IN [i \in 1..Len(found) |-> <<el, IgnoreFilePatterns(el, found[i])>>]

\* the ignore files of the directories el[1..n], el[1..n+1], ... that are
\* proper ancestors of el
RECURSIVE IgnoreFilesAbove(_, _)
IgnoreFilesAbove(el, n) ==
    IF n >= Len(el) THEN <<>>
    ELSE IgnoreFilesOf(SubSeq(el, 1, n)) \o IgnoreFilesAbove(el, n + 1)

\* C24: when ShouldIgnore is evaluated for a directory D, the enabled ignore
\* stack holds exactly the entries of the ignore files of the proper
\* ancestors of D from the search root down to D's parent, bottom to top,
\* with depths that do not decrease.
C24_StackHoldsAncestors ==
    \A w \in Roots :
      (Visiting(w) /\ ~config.NoIgnore) =>
        LET me == walkers[w]
            D == Head(me.todo)
            s == StackAtCheck(config, me.root, D, me.stack, me.previousDepth)
        IN /\ [i \in 1..Len(s) |-> <<Elems(s[i].dir), s[i].matcher>>] =
                IgnoreFilesAbove(Elems(D), Len(Elems(me.root)))
           /\ \A i \in 1..Len(s), j \in 1..Len(s) : i < j => s[i].depth <= s[j].depth

\* ------------------------------------------------------------------ claims on the marker resolver

\* the callback of walker w on the directory at the head of its todo list
NextStep(w) ==
    WalkTable[WalkConfig(config)][walkers[w].root]
             [<<Head(walkers[w].todo), walkers[w].stack, walkers[w].previousDepth>>]

\* the files of a directory that the pattern matches, in listing order
MatchingFiles(path, pattern) ==
    SelectSeq(ReadDir(path), LAMBDA e : ~e[2] /\ Match(pattern, e[1]))

\* C27: when a pattern marker wins for a directory, the project's marker is
\* the name of the first entry in listing order that is no directory and
\* matches the pattern, never the pattern itself and never the name of a
\* directory; a directory in which the patterns match subdirectories only
\* and no exact marker exists is not sent as a project.
C27_PatternMarkerIsFirstFile ==
    \A w \in Roots :
      Visiting(w) =>
        LET D == Head(walkers[w].todo)
            sent == NextStep(w).send
        IN /\ (sent # <<>> /\ sent[1].Marker \notin PresentExact(config, D)) =>
                /\ \E pt \in PresentPattern(config, D) :
                      sent[1].Marker = MatchingFiles(D, pt)[1][1]
                /\ sent[1].Marker \notin Range(config.PatternMarkers)
                /\ Append(Elems(D), sent[1].Marker) \notin DirElems
           /\ (PresentExact(config, D) = {} /\ PresentPattern(config, D) = {}) => sent = <<>>

\* the walker of ~/a/s sends its root for the pattern *.c with the marker
\* m.c, the first of the two files the pattern matches, and the walker of
\* /r sends nothing for /r/b, where the pattern matches the directory t.c
C27_Witness ==
    /\ \E e \in emitted :
         /\ Elems(e[1].Path) = DirAS
         /\ e[1].Marker = <<"m", ".", "c">>
         /\ Len(MatchingFiles(e[1].Path, StarC)) = 2
    /\ \E w \in Roots :
         /\ Visiting(w)
         /\ Elems(Head(walkers[w].todo)) = DirB
         /\ Match(StarC, <<"t", ".", "c">>)
         /\ StarC \in Range(config.PatternMarkers)
         /\ ~TooDeep(config, CurrentDepth(walkers[w].root, Head(walkers[w].todo)))
         /\ NextStep(w).send = <<>>

\* C28: the priority resolved for a marker is the explicit entry of the
\* configuration whenever there is one, whatever its value; the value of the
\* built-in table when there is no entry and the table has the name; and 1
\* otherwise.
C28_ExplicitPriorityFirst ==
    \A w \in Roots :
      Visiting(w) =>
        \A m \in PresentExact(config, Head(walkers[w].todo))
                   \cup PresentPattern(config, Head(walkers[w].todo)) :
          getMarkerPriority(config, m) =
            IF m \in DOMAIN config.Priorities THEN config.Priorities[m]
            ELSE IF markerSpecificity(m) # 0 THEN markerSpecificity(m)
            ELSE 1

\* the callback on the directory gets as far as the marker resolver
ReachesResolver(w) ==
    /\ ~SkipsNext(w)
    /\ ~TooDeep(config, CurrentDepth(walkers[w].root, Head(walkers[w].todo)))
    /\ ~Excluded(config, Head(walkers[w].todo))

\* C29: whenever a configured exact marker exists in a visited directory
\* that is not pruned, or a configured pattern matches one of its files, the
\* resolver yields a marker and the directory is sent as a project, whatever
\* the priorities; the resolver yields no marker only when none is present.
C29_PresentMarkerEmitted ==
    \A w \in Roots :
      (Visiting(w) /\ ReachesResolver(w)) =>
        LET D == Head(walkers[w].todo)
            present == PresentExact(config, D) \cup PresentPattern(config, D)
        IN /\ present # {} =>
                /\ ResolveMarker(config, D)[1] # NoMarker
                /\ Len(NextStep(w).send) = 1
                /\ NextStep(w).send[1].Path = D
           /\ ResolveMarker(config, D) = <<NoMarker, 0>> => present = {}

\* ------------------------------------------------------------------ claims on matchPattern

\* C30 as stated: matchPattern returns true exactly when the name equals the
\* pattern, or the pattern is "*" followed by s and the name ends with s, or
\* the pattern is p followed by "*" and the name starts with p, or the
\* pattern read as a glob matches the whole name.
C30_AnyOfFourForms ==
    call.op = "matchPattern" =>
      (call.result <=>
         \/ call.name = call.pattern
         \/ HasPrefix(call.pattern, <<"*">>) /\ HasSuffix(call.name, Tail(call.pattern))
         \/ /\ HasSuffix(call.pattern, <<"*">>)
            /\ HasPrefix(call.name, SubSeq(call.pattern, 1, Len(call.pattern) - 1))
         \/ Match(call.pattern, call.name))

\* C30 amended: the forms are tried in order and the first that applies to
\* the pattern decides: the suffix test alone for a pattern that begins with
\* "*", the prefix test alone for any other pattern that ends with "*", and
\* the glob only for a pattern that neither begins nor ends with "*".
C30_FirstFormDecides ==
    call.op = "matchPattern" =>
      (call.result <=>
         \/ call.name = call.pattern
         \/ HasPrefix(call.pattern, <<"*">>) /\ HasSuffix(call.name, Tail(call.pattern))
         \/ /\ ~HasPrefix(call.pattern, <<"*">>)
            /\ HasSuffix(call.pattern, <<"*">>)
            /\ HasPrefix(call.name, SubSeq(call.pattern, 1, Len(call.pattern) - 1))
         \/ /\ ~HasPrefix(call.pattern, <<"*">>)
            /\ ~HasSuffix(call.pattern, <<"*">>)
            /\ Match(call.pattern, call.name))

\* the glob *a* matches bab, and matchPattern does not
C30_Witness ==
    /\ call.op = "matchPattern"
    /\ call.pattern = <<"*", "a", "*">>
    /\ call.name = <<"b", "a", "b">>
    /\ Match(call.pattern, call.name)
    /\ ~call.result

\* ------------------------------------------------------------------ claims on the configuration hash

\* the orders a list can be given in
Reorderings(ss) ==
    { [i \in 1..Len(ss) |-> ss[p[i]]] : p \in Permutations(1..Len(ss)) }

\* C21: the hash of a configuration is the hash of every configuration that
\* has the same search paths, markers and excludes in another order (and the
\* same depth and no-ignore flag), and the configuration holds its lists in
\* the order it had before the hash was computed.
C21_HashIgnoresOrder ==
    call.op = "computeConfigHash" =>
      /\ call.held = call.cfg
      /\ \A sp \in Reorderings(call.cfg.SearchPaths),
            mk \in Reorderings(call.cfg.Markers),
            ex \in Reorderings(call.cfg.Excludes) :
           computeConfigHash([call.cfg EXCEPT !.SearchPaths = sp, !.Markers = mk,
                                              !.Excludes = ex]) = call.result

\* the hash was computed for lists none of which is in sorted order
C21_Witness ==
    /\ call.op = "computeConfigHash"
    /\ SortStrings(call.cfg.SearchPaths) # call.cfg.SearchPaths
    /\ SortStrings(call.cfg.Markers) # call.cfg.Markers
    /\ SortStrings(call.cfg.Excludes) # call.cfg.Excludes
    /\ call.held = call.cfg

\* ------------------------------------------------------------------ claims on ties and on Leave

\* the positions of the exact markers present in the directory of the call
\* whose priority is the priority of the result
ExactTied ==
    { i \in 1..Len(call.cfg.ExactMarkers) :
        /\ Exists(Join(call.dir, call.cfg.ExactMarkers[i]))
        /\ getMarkerPriority(call.cfg, call.cfg.ExactMarkers[i]) = call.result[2] }

\* the positions of the pattern markers that match a file of the directory
\* of the call and whose priority is the priority of the result
PatternTied ==
    { i \in 1..Len(call.cfg.PatternMarkers) :
        /\ FirstFileMatch(call.cfg.PatternMarkers[i], ReadDir(call.dir)) # NoMarker
        /\ getMarkerPriority(call.cfg, call.cfg.PatternMarkers[i]) = call.result[2] }

\* C26: among the markers that have the priority of the winner, the winner
\* is the first present exact marker in configured order; when no exact
\* marker has that priority it is the file matched by the first matching
\* pattern in configured order; so an exact marker wins over a pattern of
\* equal priority.
C26_FirstOfTiedWins ==
    (call.op = "ResolveMarker" /\ call.result[1] # NoMarker) =>
      IF ExactTied # {}
      THEN call.result[1] =
             call.cfg.ExactMarkers[CHOOSE i \in ExactTied : \A k \in ExactTied : i <= k]
      ELSE /\ PatternTied # {}
           /\ call.result[1] =
                FirstFileMatch(
                  call.cfg.PatternMarkers[CHOOSE i \in PatternTied : \A k \in PatternTied : i <= k],
                  ReadDir(call.dir))

\* .git given the priority of go.mod and listed before it wins the tie
C26_Witness ==
    /\ call.op = "ResolveMarker"
    /\ Cardinality(ExactTied) = 2
    /\ call.cfg.ExactMarkers = <<DotGit, GoMod>>
    /\ call.result = <<DotGit, 10>>

C22_GetSeesOldOrNew ==
    (last.op = "Get" /\ last.during.pc = "writing") =>
      /\ last.err # ErrUnmarshal
      /\ [projects |-> last.list, err |-> last.err] \in
           { Get(last.cfg, last.during.before, last.time),
             Get(last.cfg,
                 Set(last.during.cfg, last.during.list, last.during.before, last.during.began),
                 last.time) }

====
